---- MODULE Spec2Model ----
(***************************************************************************)
(* pydio/caddyvault: certmagic.Storage over a Vault KV v2 secrets engine.  *)
(*                                                                         *)
(* Strings are sequences of tokens.  A token is one path character ("a",   *)
(* "b", ...), the separator "/", or the five characters ".lock" taken as   *)
(* one token, so that `key + ".lock"` is Append and                        *)
(* `strings.Index(key, ".lock") < 0` is "no token of key is .lock".        *)
(* Payloads are sequences of bytes (0..255).                               *)
(* Time is in whole seconds, as time.Time.Unix() returns it.               *)
(***************************************************************************)
EXTENDS Integers, Sequences, FiniteSets, TLC

VARIABLES
    kv,        \* the backend: canonical path -> latest version of the secret
    now,       \* wall clock, seconds
    pc,        \* per caller: position inside Lock
    lkey,      \* per caller: Lock's local `key` (after key = key + ".lock")
    statMod,   \* per caller: Lock's local stat.Modified.Unix()
    lockRes,   \* per caller: what the caller's last Lock call returned
    held,      \* history: second at which the caller's Lock succeeded, -1 if none
    entry,     \* history: what the running Lock call saw in Exists
    intact,    \* history: the lock record was present and fresh at every step of the call
    touched,   \* history: the running/last Lock call issued a delete or a write
    alone,     \* history: no other call changed the lock record during the call
    raced,     \* history: the caller this one raced with on an absent record
    ret,       \* the last storage call and what it returned; cleared when a step
               \* of Lock changes the backend
    expect,    \* history: key -> the payload handed to the last successful write of
               \*          its record (and whether the record was live before it),
               \*          while no later call has changed that record
    everPut,   \* history: the keys Store was called on, and the lock keys written
    hist       \* history: deleted - the keys Delete returned success on, no Store
               \*                    on the key since
               \*          cleared - the same, and no Lock has written the key since
               \*          age     - per caller: the age of the lock record when the
               \*                    running/last Lock call made its staleness test
               \*          victim  - per caller: the age of the record its force-unlock
               \*                    removed
               \*          changed - the keys of the records that calls of Lock and
               \*                    Unlock created, overwrote or deleted

vars == <<kv, now, pc, lkey, statMod, lockRes, held, entry, intact, touched,
          alone, raced, ret, expect,
                   everPut, hist>>

lockVars == <<pc, lkey, statMod, lockRes, held, entry, intact, touched, alone, raced>>

-----------------------------------------------------------------------------
(* Bounds of the model *)

MaxTime == 62
MaxLen == 2

(* Program constants *)

StaleSeconds == 60

-----------------------------------------------------------------------------
(* Strings *)

defaultPrefix == <<"caddycerts">>
dataURL == "data"
metaURL == "metadata"
LockSuffix == ".lock"
Locked == <<108, 111, 99, 107, 101, 100>>   \* the bytes of "locked"

Procs == {"p1", "p2"}
None == "none"
NoOptions == << >>
ErrNotExist == "os.ErrNotExist"
Nil == "nil"

\* strings.Index(key, ".lock") >= 0
ContainsLock(key) == \E i \in 1..Len(key) : key[i] = LockSuffix

-----------------------------------------------------------------------------
(* Sequences and sets *)

Range(s) == {s[i] : i \in 1..Len(s)}

\* The elements of a finite set in one fixed order, or in the opposite one:
\* the two enumeration orders of a Go map range or of a backend listing.
SetToSeq(S, rev) ==
    LET n == Cardinality(S)
        f == CHOOSE s \in [1..n -> S] : \A i, j \in 1..n : i # j => s[i] # s[j]
    IN  IF rev THEN [i \in 1..n |-> f[n + 1 - i]] ELSE f

RECURSIVE Flatten(_)
Flatten(ss) == IF ss = << >> THEN << >> ELSE Head(ss) \o Flatten(Tail(ss))

\* The path segments of a URL path: split at "/", empty segments dropped.
RECURSIVE Segments(_, _)
Segments(s, cur) ==
    IF s = << >> THEN (IF cur = << >> THEN << >> ELSE <<cur>>)
    ELSE IF Head(s) = "/"
         THEN (IF cur = << >> THEN << >> ELSE <<cur>>) \o Segments(Tail(s), << >>)
         ELSE Segments(Tail(s), Append(cur, Head(s)))

IsPrefix(p, q) == Len(p) <= Len(q) /\ SubSeq(q, 1, Len(p)) = p

-----------------------------------------------------------------------------
(* encoding/json on a Go string: invalid UTF-8 is replaced by U+FFFD *)

Cont(s, i) == i <= Len(s) /\ s[i] >= 128 /\ s[i] <= 191
In(s, i, lo, hi) == i <= Len(s) /\ s[i] >= lo /\ s[i] <= hi

\* utf8.DecodeRuneInString(s[i:]): the width of the rune at i, 0 if invalid
RuneLen(s, i) ==
    LET b == s[i] IN
    IF b < 128 THEN 1
    ELSE IF b >= 194 /\ b <= 223 THEN (IF Cont(s, i + 1) THEN 2 ELSE 0)
    ELSE IF b = 224 THEN (IF In(s, i + 1, 160, 191) /\ Cont(s, i + 2) THEN 3 ELSE 0)
    ELSE IF b = 237 THEN (IF In(s, i + 1, 128, 159) /\ Cont(s, i + 2) THEN 3 ELSE 0)
    ELSE IF b >= 225 /\ b <= 239 THEN (IF Cont(s, i + 1) /\ Cont(s, i + 2) THEN 3 ELSE 0)
    ELSE IF b = 240
         THEN (IF In(s, i + 1, 144, 191) /\ Cont(s, i + 2) /\ Cont(s, i + 3) THEN 4 ELSE 0)
    ELSE IF b >= 241 /\ b <= 243
         THEN (IF Cont(s, i + 1) /\ Cont(s, i + 2) /\ Cont(s, i + 3) THEN 4 ELSE 0)
    ELSE IF b = 244
         THEN (IF In(s, i + 1, 128, 143) /\ Cont(s, i + 2) /\ Cont(s, i + 3) THEN 4 ELSE 0)
    ELSE 0

\* What the backend holds after json.Marshal of string(value) and its own
\* JSON decoding: the bytes, each invalid byte replaced by EF BF BD.
RECURSIVE jsonString(_, _)
jsonString(s, i) ==
    IF i > Len(s) THEN << >>
    ELSE LET w == RuneLen(s, i) IN
         IF w = 0 THEN <<239, 191, 189>> \o jsonString(s, i + 1)
         ELSE SubSeq(s, i, i + w - 1) \o jsonString(s, i + w)

\* json.Marshal(utils.Request{Options, Data}): the body of a write.
\* options is [cas |-> 0] (utils.Options{Cas: 0}) or NoOptions: a request
\* built without Options is a plain write, one built with Options{Cas: 0} a
\* create-only write (design text, 4.1 and 6).  The declaration of
\* utils.Request, which decides what either request looks like on the wire,
\* is not among the sources.
jsonMarshal(options, data) ==
    [options |-> options,
     data    |-> [k \in DOMAIN data |-> jsonString(data[k], 1)]]

-----------------------------------------------------------------------------
(* The backend (Vault KV v2) behind utils.QueryStore, ListStore, LoadStore   *)
(* and DeleteStore.  kv maps the canonical path of every secret that has    *)
(* metadata to its latest version.                                          *)

NoTime == -1     \* created_time of an empty response: ""

\* vs.buildURL(u, key...): vs.API and "/v1/" are the same for every call and
\* left out; vs.Prefix is unset.
buildURL(u, key) == defaultPrefix \o <<"/", u, "/">> \o key

\* The secret a URL built by buildURL addresses.
PathOf(url) == Segments(SubSeq(url, 5, Len(url)), << >>)

EmptyResult ==
    [Data |-> [Data |-> << >>, Keys |-> << >>,
               Metadata |-> [CreatedTime |-> NoTime, Destroyed |-> FALSE]]]

\* GET data/<path>
QueryStore(store, url) ==
    LET p == PathOf(url) IN
    IF p \in DOMAIN store
    THEN [Data |-> [Data |-> store[p].data, Keys |-> << >>,
                    Metadata |-> [CreatedTime |-> store[p].created,
                                  Destroyed |-> store[p].destroyed]]]
    ELSE EmptyResult

\* LIST metadata/<path>: the names one level below path, in the order rev picks
ListStore(store, url, rev) ==
    LET p == PathOf(url)
        kids == {q[Len(p) + 1] : q \in {r \in DOMAIN store : Len(r) > Len(p) /\ IsPrefix(p, r)}}
    IN  [Data |-> [Data |-> << >>, Keys |-> SetToSeq(kids, rev),
                   Metadata |-> [CreatedTime |-> NoTime, Destroyed |-> FALSE]]]

\* PUT data/<path>: the errors of the response.  options.cas = 0 lets the
\* write through only when the secret does not exist.
LoadStoreErrors(store, url, body) ==
    IF "cas" \in DOMAIN body.options /\ body.options.cas = 0 /\ PathOf(url) \in DOMAIN store
    THEN <<"check-and-set parameter did not match the current version">>
    ELSE << >>

\* PUT data/<path>: the backend after the write
LoadStore(store, url, body, t) ==
    IF LoadStoreErrors(store, url, body) # << >> THEN store
    ELSE LET p == PathOf(url) IN
         [q \in DOMAIN store \cup {p} |->
            IF q = p THEN [data |-> body.data, created |-> t, destroyed |-> FALSE]
            ELSE store[q]]

\* The backend as a read that fails at transport level shows it: the result
\* has the normalized shape with nothing in it, whatever the path.
Unreachable == << >>

\* DELETE metadata/<path>: the errors of the response.  The backend reports
\* none, also when there is no secret at the path.
DeleteStoreErrors(store, url) == << >>

\* DELETE metadata/<path>: the secret and all its versions are gone
DeleteStore(store, url) ==
    LET p == PathOf(url) IN [q \in DOMAIN store \ {p} |-> store[q]]

-----------------------------------------------------------------------------
(* The adapter's reads, as functions of the backend's state *)

\* len(res.Data.Data)
len(m) == Cardinality(DOMAIN m)

\* time.Parse(time.RFC3339, s)
timeParse(s) ==
    IF s = NoTime THEN [Unix |-> 0, err |-> "parsing time"]
    ELSE [Unix |-> s, err |-> Nil]

queryPath(store, url, prefix, rev) ==
    LET res == QueryStore(store, url \o prefix)
    IN  SetToSeq(DOMAIN res.Data.Data, rev)

\* Faulty variant of listPath: the keys one level down only
listPathOneLevel(store, listurl, loadurl, prefix, rev) ==
    LET res == ListStore(store, listurl \o prefix, rev)
        keys == res.Data.Keys
    IN  queryPath(store, loadurl, prefix, rev)
        \o Flatten([i \in 1..Len(keys) |->
                      queryPath(store, loadurl \o prefix, <<"/">> \o keys[i], rev)])

RECURSIVE listPath(_, _, _, _, _)
listPath(store, listurl, loadurl, prefix, rev) ==
    LET res == ListStore(store, listurl \o prefix, rev)
        keys == res.Data.Keys
    IN  queryPath(store, loadurl, prefix, rev)
        \o Flatten([i \in 1..Len(keys) |->
                      listPath(store, listurl \o prefix, loadurl \o prefix,
                               <<"/">> \o keys[i], rev)])

\* Faulty variant of List: an empty result is returned as a success
ListEmptySuccess(store, prefix, recursive, rev) ==
    [list |-> IF recursive
              THEN listPath(store, buildURL(metaURL, << >>), buildURL(dataURL, << >>),
                            prefix, rev)
              ELSE queryPath(store, buildURL(dataURL, << >>), prefix, rev),
     err |-> Nil]

List(store, prefix, recursive, rev) ==
    LET list == IF recursive
                THEN listPath(store, buildURL(metaURL, << >>), buildURL(dataURL, << >>),
                              prefix, rev)
                ELSE queryPath(store, buildURL(dataURL, << >>), prefix, rev)
    IN  IF Len(list) = 0 THEN [list |-> list, err |-> ErrNotExist]
        ELSE [list |-> list, err |-> Nil]

\* Faulty variant of Load: an empty payload mapping is returned as empty bytes
LoadEmptySuccess(store, key) ==
    LET res == QueryStore(store, buildURL(dataURL, key)) IN
    IF key \in DOMAIN res.Data.Data
    THEN [val |-> res.Data.Data[key], err |-> Nil, panic |-> FALSE]
    ELSE [val |-> << >>, err |-> Nil, panic |-> FALSE]

\* res.Data.Data[key].(string) panics when the mapping has no entry for key
Load(store, key) ==
    LET res == QueryStore(store, buildURL(dataURL, key)) IN
    IF len(res.Data.Data) = 0 THEN [val |-> << >>, err |-> ErrNotExist, panic |-> FALSE]
    ELSE IF key \in DOMAIN res.Data.Data
         THEN [val |-> res.Data.Data[key], err |-> Nil, panic |-> FALSE]
         ELSE [val |-> << >>, err |-> Nil, panic |-> TRUE]

\* Faulty variant of Exists: only the destroyed flag is looked at
ExistsNotDestroyed(store, key) ==
    LET res == QueryStore(store, buildURL(dataURL, key))
    IN  ~res.Data.Metadata.Destroyed

Exists(store, key) ==
    LET res == QueryStore(store, buildURL(dataURL, key))
    IN  len(res.Data.Data) > 0 /\ ~res.Data.Metadata.Destroyed

Stat(store, key, rev) ==
    LET res == QueryStore(store, buildURL(dataURL, key))
        l == List(store, key, FALSE, rev)
        t == timeParse(res.Data.Metadata.CreatedTime)
    IN  IF key \in DOMAIN res.Data.Data
        THEN [Key |-> key, IsTerminal |-> (l.err = ErrNotExist),
              Size |-> Len(res.Data.Data[key]), Modified |-> t.Unix,
              err |-> t.err, panic |-> FALSE]
        ELSE [Key |-> key, IsTerminal |-> (l.err = ErrNotExist),
              Size |-> 0, Modified |-> t.Unix, err |-> t.err, panic |-> TRUE]

\* The write Store issues: a request with Data only
StoreRequest(key, value) == jsonMarshal(NoOptions, (key :> value))

\* Faulty variant of lockSystemRequest: the lock written as a plain write
lockSystemRequestPlain(key) == jsonMarshal(NoOptions, (key :> Locked))

\* The write lockSystem issues: Options{Cas: 0} and Data {key: "locked"}
lockSystemRequest(key) == jsonMarshal([cas |-> 0], (key :> Locked))

\* Faulty variant of UnlockKey: the suffix is added to every key
UnlockKeyAppends(key) == Append(key, LockSuffix)

\* Unlock's key: the suffix is added unless ".lock" occurs in the key
UnlockKey(key) == IF ~ContainsLock(key) THEN Append(key, LockSuffix) ELSE key

-----------------------------------------------------------------------------
(* Inputs *)

A == <<"a">>
B == <<"b">>
BC == <<"b", "/", "c">>
BD == <<"b", "/", "d">>
ALC == <<"a", LockSuffix, "/", "c">>    \* "a.lock/c": ".lock" inside the key

Bytes == {65, 255}                 \* "A", and a byte that is not valid UTF-8
TickSteps == {30, 31}

RECURSIVE SeqsUpTo(_, _)
SeqsUpTo(S, n) ==
    IF n = 0 THEN {<< >>}
    ELSE LET shorter == SeqsUpTo(S, n - 1)
         IN  shorter \cup {Append(s, x) : s \in {t \in shorter : Len(t) = n - 1}, x \in S}

Payloads == SeqsUpTo(Bytes, MaxLen)

StoreKeys == {B, BC}               \* a key, and a key below it
TreeKeys == {A, BC, BD}            \* the namespace a, b/c, b/d
LockKeys == {A}
UnlockKeys == {A, ALC}             \* a plain key, and one with ".lock" inside
Prefixes == {<< >>, A, B, BC, <<"c">>, Append(A, LockSuffix)}

-----------------------------------------------------------------------------
(* History bookkeeping *)

DataPath(key) == PathOf(buildURL(dataURL, key))

\* The expectations that a change of the secret at path leaves standing
Forget(path) == [k \in {j \in DOMAIN expect : DataPath(j) # path} |-> expect[k]]

\* Callers inside Lock on the record at path, other than p, are no longer alone
Disturb(p, path) ==
    [q \in Procs |-> IF q # p /\ pc[q] # "idle" /\ DataPath(lkey[q]) = path
                     THEN FALSE ELSE alone[q]]

\* The keys of the record at path, none if there is no record
KeysAt(store, path) == IF path \in DOMAIN store THEN DOMAIN store[path].data ELSE {}

\* Whole seconds since the record at key was created, -1 if there is no record
AgeOf(store, key, t) ==
    IF DataPath(key) \in DOMAIN store THEN t - store[DataPath(key)].created ELSE -1

\* The record at key is present, not destroyed and at most StaleSeconds old
Fresh(store, key, t) ==
    /\ DataPath(key) \in DOMAIN store
    /\ ~store[DataPath(key)].destroyed
    /\ t - store[DataPath(key)].created <= StaleSeconds

-----------------------------------------------------------------------------
(* The state after construction: an empty secrets engine, no call running *)

Init ==
    /\ kv = << >>
    /\ now = 0
    /\ pc = [p \in Procs |-> "idle"]
    /\ lkey = [p \in Procs |-> << >>]
    /\ statMod = [p \in Procs |-> 0]
    /\ lockRes = [p \in Procs |-> None]
    /\ held = [p \in Procs |-> -1]
    /\ entry = [p \in Procs |-> None]
    /\ intact = [p \in Procs |-> FALSE]
    /\ touched = [p \in Procs |-> [del |-> FALSE, put |-> FALSE]]
    /\ alone = [p \in Procs |-> TRUE]
    /\ raced = [p \in Procs |-> None]
    /\ ret = [op |-> None]
    /\ expect = << >>
    /\ everPut = [store |-> {}, lock |-> {}]
    /\ hist = [deleted |-> {}, cleared |-> {},
               age |-> [p \in Procs |-> -1], victim |-> [p \in Procs |-> -1],
               changed |-> {}]

-----------------------------------------------------------------------------
(* Storage calls.  Each is one caller's whole call against a backend that   *)
(* no other call changes meanwhile.                                         *)

Store(key, value) ==
    LET url == buildURL(dataURL, key)
        body == StoreRequest(key, value)
        errors == LoadStoreErrors(kv, url, body)
    IN  /\ kv' = LoadStore(kv, url, body, now)
        /\ ret' = [op |-> "Store", key |-> key, value |-> value,
                   over |-> Exists(kv, key),
                   err |-> IF Len(errors) > 0 THEN "Failed to store" ELSE Nil]
        /\ expect' = IF Len(errors) > 0 THEN Forget(DataPath(key))
                     ELSE [k \in DOMAIN Forget(DataPath(key)) \cup {key} |->
                             IF k = key THEN [value |-> value, over |-> Exists(kv, key)]
                             ELSE expect[k]]
        /\ everPut' = [everPut EXCEPT !.store = @ \cup {key}]
        /\ hist' = [hist EXCEPT !.deleted = @ \ {key}, !.cleared = @ \ {key}]
        /\ alone' = Disturb(None, DataPath(key))
        /\ UNCHANGED <<now, pc, lkey, statMod, lockRes, held, entry, intact,
                       touched, raced>>

\* Faulty variant of Delete: a key that has no record is reported as an error
DeleteAbsentFails(key) ==
    LET url == buildURL(metaURL, key)
        gone == DataPath(key) \notin DOMAIN kv
    IN  /\ kv' = DeleteStore(kv, url)
        /\ ret' = [op |-> "Delete", key |-> key,
                   was |-> ~gone, same |-> (DeleteStore(kv, url) = kv),
                   err |-> IF gone THEN "Failed to delete" ELSE Nil]
        /\ expect' = Forget(DataPath(key))
        /\ hist' = [hist EXCEPT !.deleted = @ \cup {key}, !.cleared = @ \cup {key}]
        /\ alone' = Disturb(None, DataPath(key))
        /\ UNCHANGED <<now, pc, lkey, statMod, lockRes, held, entry, intact,
                       touched, raced, everPut>>

\* was: the key had a record when Delete was called; same: the call left the
\* backend as it was
Delete(key) ==
    LET url == buildURL(metaURL, key)
        errors == DeleteStoreErrors(kv, url)
    IN
    /\ kv' = DeleteStore(kv, url)
    /\ ret' = [op |-> "Delete", key |-> key,
               was |-> (DataPath(key) \in DOMAIN kv), same |-> (DeleteStore(kv, url) = kv),
               err |-> IF Len(errors) > 0 THEN "Failed to delete" ELSE Nil]
    /\ expect' = Forget(DataPath(key))
    /\ hist' = IF Len(errors) > 0 THEN hist
               ELSE [hist EXCEPT !.deleted = @ \cup {key}, !.cleared = @ \cup {key}]
    /\ alone' = Disturb(None, DataPath(key))
    /\ UNCHANGED <<now, pc, lkey, statMod, lockRes, held, entry, intact,
                   touched, raced, everPut>>

CallLoad(key) ==
    /\ ret' = [op |-> "Load", key |-> key] @@ Load(kv, key)
    /\ UNCHANGED <<kv, now, expect, everPut, hist>>
    /\ UNCHANGED lockVars

CallExists(key) ==
    /\ ret' = [op |-> "Exists", key |-> key, val |-> Exists(kv, key)]
    /\ UNCHANGED <<kv, now, expect, everPut, hist>>
    /\ UNCHANGED lockVars

CallStat(key) ==
    /\ \E rev \in BOOLEAN : ret' = [op |-> "Stat", key |-> key] @@ Stat(kv, key, rev)
    /\ UNCHANGED <<kv, now, expect, everPut, hist>>
    /\ UNCHANGED lockVars

CallList(prefix, recursive) ==
    /\ \E rev \in BOOLEAN :
          ret' = [op |-> "List", key |-> prefix, recursive |-> recursive]
                 @@ List(kv, prefix, recursive, rev)
    /\ UNCHANGED <<kv, now, expect, everPut, hist>>
    /\ UNCHANGED lockVars

\* Outside the adapter: the latest version of the secret at key is destroyed.
\* The response to a read then carries destroyed = true, with the payload
\* still in it (keep) or without it.
Destroyed(key, keep) ==
    LET path == DataPath(key) IN
    /\ path \in DOMAIN kv
    /\ ~kv[path].destroyed
    /\ kv' = [kv EXCEPT ![path] = [data |-> IF keep THEN @.data ELSE << >>,
                                   created |-> @.created, destroyed |-> TRUE]]
    /\ ret' = [op |-> None]
    /\ expect' = Forget(path)
    /\ alone' = Disturb(None, path)
    /\ UNCHANGED <<now, pc, lkey, statMod, lockRes, held, entry, intact,
                   touched, raced, everPut, hist>>

Tick ==
    /\ \E d \in TickSteps : now + d <= MaxTime /\ now' = now + d
    /\ UNCHANGED <<kv, ret, expect, everPut, hist>>
    /\ UNCHANGED lockVars

-----------------------------------------------------------------------------
(* Lock, one backend round trip (or one clock reading) per step, so that    *)
(* the calls of several processes interleave.                               *)

\* A race on path that a delete interrupts before both writes are in is over
Unrace(path) ==
    [r \in Procs |->
        IF /\ raced[r] # None
           /\ DataPath(lkey[r]) = path
           /\ (pc[r] = "write" \/ pc[raced[r]] = "write")
        THEN None ELSE raced[r]]

Return(p, res) ==
    /\ pc' = [pc EXCEPT ![p] = "idle"]
    /\ lockRes' = [lockRes EXCEPT ![p] = res]

\* key = key + ".lock"; if vs.Exists(c, key) { ... }
LockExists(p, key) ==
    LET k == Append(key, LockSuffix)
        e == Exists(kv, k)
    IN  /\ pc[p] = "idle" /\ held[p] = -1
        /\ lkey' = [lkey EXCEPT ![p] = k]
        /\ pc' = [pc EXCEPT ![p] = IF e THEN "stat" ELSE "write"]
        /\ lockRes' = [lockRes EXCEPT ![p] = None]
        /\ entry' = [entry EXCEPT ![p] = IF ~e THEN "absent"
                                         ELSE IF Fresh(kv, k, now) THEN "fresh"
                                         ELSE "stale"]
        /\ intact' = [intact EXCEPT ![p] = Fresh(kv, k, now)]
        /\ touched' = [touched EXCEPT ![p] = [del |-> FALSE, put |-> FALSE]]
        /\ alone' = [alone EXCEPT ![p] = TRUE]
        /\ raced' = [raced EXCEPT ![p] = None]
        /\ hist' = [hist EXCEPT !.age[p] = -1, !.victim[p] = -1]
        /\ UNCHANGED <<kv, now, statMod, held, ret, expect, everPut>>

\* key = key + ".lock"; if vs.Exists(c, key) { ... }, the read of Exists
\* failing at transport level.  Exists has no error result: it reports what
\* the empty result says.
LockExistsFails(p, key) ==
    LET k == Append(key, LockSuffix)
        e == Exists(Unreachable, k)
    IN  /\ pc[p] = "idle" /\ held[p] = -1
        /\ lkey' = [lkey EXCEPT ![p] = k]
        /\ pc' = [pc EXCEPT ![p] = IF e THEN "stat" ELSE "write"]
        /\ lockRes' = [lockRes EXCEPT ![p] = None]
        /\ entry' = [entry EXCEPT ![p] = "failed"]
        /\ intact' = [intact EXCEPT ![p] = FALSE]
        /\ touched' = [touched EXCEPT ![p] = [del |-> FALSE, put |-> FALSE]]
        /\ alone' = [alone EXCEPT ![p] = TRUE]
        /\ raced' = [raced EXCEPT ![p] = None]
        /\ hist' = [hist EXCEPT !.age[p] = -1, !.victim[p] = -1]
        /\ UNCHANGED <<kv, now, statMod, held, ret, expect, everPut>>

\* stat, err := vs.Stat(c, key).  Stat's second read (its List) decides
\* IsTerminal only, which Lock does not use; it is part of this step.
LockStat(p) ==
    LET s == Stat(kv, lkey[p], FALSE) IN
    /\ pc[p] = "stat"
    /\ intact' = [intact EXCEPT ![p] = @ /\ Fresh(kv, lkey[p], now)]
    /\ IF s.panic
       THEN Return(p, "panic") /\ UNCHANGED statMod
       ELSE IF s.err # Nil
            THEN Return(p, s.err) /\ UNCHANGED statMod
            ELSE /\ pc' = [pc EXCEPT ![p] = "check"]
                 /\ statMod' = [statMod EXCEPT ![p] = s.Modified]
                 /\ UNCHANGED lockRes
    /\ UNCHANGED <<kv, now, lkey, held, entry, touched, alone, raced, ret, expect,
                   everPut, hist>>

\* Faulty variant of LockCheck: a record exactly StaleSeconds old is stale
LockCheckAtThreshold(p) ==
    /\ pc[p] = "check"
    /\ intact' = [intact EXCEPT ![p] = @ /\ Fresh(kv, lkey[p], now)]
    /\ IF now - statMod[p] >= StaleSeconds
       THEN pc' = [pc EXCEPT ![p] = "unlock"] /\ UNCHANGED lockRes
       ELSE Return(p, "Lock already exists")
    /\ hist' = [hist EXCEPT !.age[p] = AgeOf(kv, lkey[p], now)]
    /\ UNCHANGED <<kv, now, lkey, statMod, held, entry, touched, alone, raced,
                   ret, expect, everPut>>

\* Faulty variant of LockCheck: a record is stale one second later
LockCheckLate(p) ==
    /\ pc[p] = "check"
    /\ intact' = [intact EXCEPT ![p] = @ /\ Fresh(kv, lkey[p], now)]
    /\ IF now - statMod[p] > StaleSeconds + 1
       THEN pc' = [pc EXCEPT ![p] = "unlock"] /\ UNCHANGED lockRes
       ELSE Return(p, "Lock already exists")
    /\ hist' = [hist EXCEPT !.age[p] = AgeOf(kv, lkey[p], now)]
    /\ UNCHANGED <<kv, now, lkey, statMod, held, entry, touched, alone, raced,
                   ret, expect, everPut>>

\* if time.Now().Unix()-stat.Modified.Unix() > 60 { unlock } else { return error }
LockCheck(p) ==
    /\ pc[p] = "check"
    /\ intact' = [intact EXCEPT ![p] = @ /\ Fresh(kv, lkey[p], now)]
    /\ IF now - statMod[p] > StaleSeconds
       THEN pc' = [pc EXCEPT ![p] = "unlock"] /\ UNCHANGED lockRes
       ELSE Return(p, "Lock already exists")
    /\ hist' = [hist EXCEPT !.age[p] = AgeOf(kv, lkey[p], now)]
    /\ UNCHANGED <<kv, now, lkey, statMod, held, entry, touched, alone, raced,
                   ret, expect, everPut>>

\* _ = vs.Unlock(c, key)
LockForceUnlock(p) ==
    LET k == UnlockKey(lkey[p]) IN
    /\ pc[p] = "unlock"
    /\ kv' = DeleteStore(kv, buildURL(metaURL, k))
    /\ pc' = [pc EXCEPT ![p] = "write"]
    /\ touched' = [touched EXCEPT ![p].del = TRUE]
    /\ alone' = Disturb(p, DataPath(k))
    /\ raced' = Unrace(DataPath(k))
    /\ expect' = Forget(DataPath(k))
    /\ ret' = [op |-> None]
    /\ hist' = [hist EXCEPT !.victim[p] = AgeOf(kv, k, now),
                            !.changed = @ \cup KeysAt(kv, DataPath(k)),
                            !.deleted = @ \cup {k}, !.cleared = @ \cup {k}]
    /\ UNCHANGED <<now, lkey, statMod, lockRes, held, entry, intact, everPut>>

\* return lockSystem(key, vs.buildURL(dataURL, key))
lockSystem(p) ==
    LET url == buildURL(dataURL, lkey[p])
        body == lockSystemRequest(lkey[p])
        errors == LoadStoreErrors(kv, url, body)
        rival == {q \in Procs \ {p} : /\ pc[q] = "write" /\ entry[q] = "absent"
                                      /\ lkey[q] = lkey[p] /\ raced[q] = None}
    IN  /\ pc[p] = "write"
        /\ kv' = LoadStore(kv, url, body, now)
        /\ IF Len(errors) > 0
           THEN /\ Return(p, "Failed to lock")
                /\ UNCHANGED <<held, touched, alone, expect, everPut, ret, hist>>
           ELSE /\ Return(p, Nil)
                /\ ret' = [op |-> None]
                /\ held' = [held EXCEPT ![p] = now]
                /\ touched' = [touched EXCEPT ![p].put = TRUE]
                /\ alone' = Disturb(p, DataPath(lkey[p]))
                /\ expect' = [k \in DOMAIN Forget(DataPath(lkey[p])) \cup {lkey[p]} |->
                                IF k = lkey[p] THEN [value |-> Locked, over |-> FALSE]
                                ELSE expect[k]]
                /\ everPut' = [everPut EXCEPT !.lock = @ \cup {lkey[p]}]
                /\ hist' = [hist EXCEPT !.changed = @ \cup {lkey[p]},
                                        !.cleared = @ \ {lkey[p]}]
        /\ raced' = IF entry[p] = "absent" /\ raced[p] = None /\ rival # {}
                    THEN LET q == CHOOSE q \in rival : TRUE
                         IN  [raced EXCEPT ![p] = q, ![q] = p]
                    ELSE raced
        /\ UNCHANGED <<now, lkey, statMod, entry, intact>>

\* Unlock(key) by the holder of the lock of logical; key is logical or
\* logical + ".lock".  ret.gone are the keys of the records the call removed,
\* ret.left tells whether the lock record of logical is still there.
UnlockCall(p, logical, key) ==
    LET k == UnlockKey(key)
        after == DeleteStore(kv, buildURL(metaURL, k))
    IN  /\ pc[p] = "idle" /\ held[p] >= 0
        /\ kv' = after
        /\ held' = [held EXCEPT ![p] = -1]
        /\ ret' = [op |-> "Unlock", key |-> key, logical |-> logical,
                   gone |-> KeysAt(kv, DataPath(k)),
                   left |-> Exists(after, Append(logical, LockSuffix)),
                   err |-> Nil]
        /\ alone' = Disturb(p, DataPath(k))
        /\ raced' = Unrace(DataPath(k))
        /\ expect' = Forget(DataPath(k))
        /\ hist' = [hist EXCEPT !.changed = @ \cup KeysAt(kv, DataPath(k)),
                                !.deleted = @ \cup {k}, !.cleared = @ \cup {k}]
        /\ UNCHANGED <<now, pc, lkey, statMod, lockRes, entry, intact, touched, everPut>>

\* Unlock(key) by the holder, with the key it locked
Unlock(p) ==
    LET key == SubSeq(lkey[p], 1, Len(lkey[p]) - 1)
    IN  UnlockCall(p, key, key)

\* Unlock(key + ".lock") by the holder of the lock of key
UnlockSuffixed(p) ==
    LET key == SubSeq(lkey[p], 1, Len(lkey[p]) - 1)
    IN  UnlockCall(p, key, lkey[p])

\* The holder's process dies without calling Unlock; its record stays
Crash(p) ==
    /\ pc[p] = "idle" /\ held[p] >= 0
    /\ held' = [held EXCEPT ![p] = -1]
    /\ UNCHANGED <<kv, now, pc, lkey, statMod, lockRes, entry, intact, touched,
                   alone, raced, ret, expect,
                   everPut, hist>>

-----------------------------------------------------------------------------
(* Specifications *)

LockStep(P) ==
    \E p \in P :
        \/ \E key \in LockKeys : LockExists(p, key)
        \/ LockStat(p)
        \/ LockCheck(p)
        \/ LockForceUnlock(p)
        \/ lockSystem(p)
        \/ Unlock(p)
        \/ Crash(p)

\* Everything: every call, by every process
Next ==
    \/ LockStep(Procs)
    \/ \E p \in Procs, key \in UnlockKeys : LockExists(p, key) \/ LockExistsFails(p, key)
    \/ \E p \in Procs : UnlockSuffixed(p)
    \/ Tick
    \/ \E key \in StoreKeys \cup TreeKeys \cup UnlockKeys, value \in Payloads : Store(key, value)
    \/ \E key \in StoreKeys \cup TreeKeys : Delete(key)
    \/ \E key \in StoreKeys \cup TreeKeys, keep \in BOOLEAN : Destroyed(key, keep)
    \/ \E key \in Prefixes \cup StoreKeys \cup TreeKeys :
          CallLoad(key) \/ CallExists(key) \/ CallStat(key)
    \/ \E prefix \in Prefixes, recursive \in BOOLEAN : CallList(prefix, recursive)

Spec == Init /\ [][Next]_vars

\* The lock protocol: two processes and one key
NextLock == LockStep(Procs) \/ Tick

SpecLock == Init /\ [][NextLock]_vars

\* Store, Load, Exists, Stat and Delete of one caller
NextStore ==
    \/ \E key \in StoreKeys, value \in Payloads : Store(key, value)
    \/ \E key \in StoreKeys : Delete(key)
    \/ \E key \in StoreKeys : CallLoad(key) \/ CallExists(key) \/ CallStat(key)

SpecStore == Init /\ [][NextStore]_vars

\* The namespace: Store, Delete and the reads, with one process taking and
\* releasing the lock of a key, all within one second
NextList ==
    \/ \E key \in TreeKeys \cup {B} : Store(key, <<65>>)
    \/ \E key \in TreeKeys \cup {B} : Delete(key)
    \/ \E key \in Prefixes : CallLoad(key) \/ CallExists(key)
    \/ \E prefix \in Prefixes, recursive \in BOOLEAN : CallList(prefix, recursive)
    \/ \E key \in LockKeys : LockExists("p1", key)
    \/ lockSystem("p1")
    \/ Unlock("p1")

SpecList == Init /\ [][NextList]_vars

\* The lock protocol with reads that fail at transport level
NextFail ==
    \/ \E p \in Procs, key \in LockKeys : LockExistsFails(p, key)
    \/ LockStep(Procs)
    \/ Tick

SpecFail == Init /\ [][NextFail]_vars

\* The reads against every response of the backend: a record is absent,
\* live, or destroyed with or without its payload in the response
NextResponse ==
    \/ \E key \in StoreKeys : Store(key, <<65>>)
    \/ \E key \in StoreKeys : Delete(key)
    \/ \E key \in StoreKeys, keep \in BOOLEAN : Destroyed(key, keep)
    \/ \E key \in StoreKeys : CallLoad(key) \/ CallExists(key) \/ CallStat(key)

SpecResponse == Init /\ [][NextResponse]_vars

\* Lock and Unlock of one process, Unlock with the key in either form, on a
\* plain key and on a key with ".lock" inside; Store writes the records the
\* keys themselves name.  All within one second.
NextUnlock ==
    \/ \E key \in UnlockKeys : LockExists("p1", key)
    \/ LockStat("p1")
    \/ LockCheck("p1")
    \/ lockSystem("p1")
    \/ Unlock("p1")
    \/ UnlockSuffixed("p1")
    \/ \E key \in UnlockKeys : Store(key, <<65>>)
    \/ \E key \in UnlockKeys : CallExists(key) \/ CallExists(Append(key, LockSuffix))

SpecUnlock == Init /\ [][NextUnlock]_vars

-----------------------------------------------------------------------------
(* Properties of the lock protocol (SpecLock) *)

Returned(p) == pc[p] = "idle" /\ lockRes[p] # None

\* p's Lock succeeded, p has not called Unlock, and the acquisition is at
\* most StaleSeconds old
HoldsFresh(p) == held[p] >= 0 /\ now - held[p] <= StaleSeconds

\* C1: mutual exclusion.  No two different processes have both had Lock(k)
\* return success, neither having called Unlock(k) since, with both
\* acquisitions at most 60 seconds old.
C1_MutualExclusion ==
    \A p, q \in Procs :
        p # q /\ lkey[p] = lkey[q] => ~(HoldsFresh(p) /\ HoldsFresh(q))

\* C2: when two processes both find no lock record before either writes, and
\* no record is deleted between their writes, exactly one Lock call returns
\* success and the other an error, and the losing call wrote nothing.
C2_CreateOnlyRace ==
    \A p, q \in Procs :
        raced[p] = q /\ raced[q] = p /\ Returned(p) /\ Returned(q) =>
            \/ /\ lockRes[p] = Nil /\ lockRes[q] = "Failed to lock"
               /\ touched[p].put /\ ~touched[q].put
            \/ /\ lockRes[q] = Nil /\ lockRes[p] = "Failed to lock"
               /\ touched[q].put /\ ~touched[p].put

C2_Witness ==
    /\ raced["p1"] = "p2" /\ raced["p2"] = "p1"
    /\ Returned("p1") /\ Returned("p2")
    /\ lockRes["p1"] = "Failed to lock" /\ lockRes["p2"] = Nil

\* C3: a Lock call that finds the lock record present, not destroyed and at
\* most 60 seconds old at each of its steps, no other call changing the
\* record meanwhile, returns the lock-already-held error and has issued
\* neither a delete nor a write.
C3_FreshLockRefused ==
    \A p \in Procs :
        Returned(p) /\ entry[p] = "fresh" /\ intact[p] /\ alone[p] =>
            /\ lockRes[p] = "Lock already exists"
            /\ touched[p] = [del |-> FALSE, put |-> FALSE]

C3_Witness ==
    /\ Returned("p2") /\ entry["p2"] = "fresh" /\ intact["p2"] /\ alone["p2"]
    /\ held["p1"] >= 0 /\ now - held["p1"] = StaleSeconds
    /\ lockRes["p2"] = "Lock already exists"

-----------------------------------------------------------------------------
(* Properties of the storage calls (SpecStore, SpecList) *)

\* The record at or below prefix, by path segments
Under(prefix, key) == IsPrefix(DataPath(prefix), DataPath(key))

\* C5: Load(k) after a successful Store(k, v) of a non-empty payload, no
\* other call having changed k since, returns exactly v and no error.
C5_RoundTrip ==
    ret.op = "Load" /\ ret.key \in DOMAIN expect /\ Len(expect[ret.key].value) > 0 =>
        ~ret.panic /\ ret.err = Nil /\ ret.val = expect[ret.key].value

\* C6: Store on a key that holds a live record returns success, and the
\* Load that follows returns the payload just stored.
C6_Overwrite ==
    /\ ret.op = "Store" /\ ret.over => ret.err = Nil
    /\ ret.op = "Load" /\ ret.key \in DOMAIN expect /\ expect[ret.key].over =>
           ~ret.panic /\ ret.err = Nil /\ ret.val = expect[ret.key].value

\* The result of a read reports absence
Absent ==
    CASE ret.op = "Load"   -> ~ret.panic /\ ret.err = ErrNotExist
      [] ret.op = "Exists" -> ret.val = FALSE
      [] ret.op = "List"   -> ret.err = ErrNotExist
      [] OTHER             -> TRUE

IsRead == ret.op \in {"Load", "Exists", "List"}

NeverStored(key) == \A j \in everPut.store : ~Under(key, j)

NeverLocked(key) == \A j \in everPut.lock : ~Under(key, j)

\* C7 as stated: for a key on which Store was never called and under which
\* no key was ever stored, Load, Exists and List (recursive or not) report
\* absence.
C7_NeverStoredAbsent == IsRead /\ NeverStored(ret.key) => Absent

\* C7, amended: for a key on which Store was never called, under which no
\* key was ever stored, and at or under which Lock never wrote a lock
\* record, Load, Exists and List (recursive or not) report absence.
C7_NeverWrittenAbsent == IsRead /\ NeverStored(ret.key) /\ NeverLocked(ret.key) => Absent

C7_Witness ==
    /\ ret.op = "List" /\ ret.recursive /\ ret.key = B /\ ret.err = ErrNotExist
    /\ everPut.store = {A} /\ everPut.lock = {Append(A, LockSuffix)}
    /\ Exists(kv, A) /\ Exists(kv, Append(A, LockSuffix))

\* C8: List returns a non-empty sequence and no error, or the not-found
\* error; never an empty sequence and no error.
C8_ListNotEmptyOrNotFound ==
    ret.op = "List" =>
        \/ ret.err = Nil /\ Len(ret.list) > 0
        \/ ret.err = ErrNotExist

C8_Witness ==
    /\ ret.op = "List" /\ ~ret.recursive /\ ret.key = B
    /\ ret.err = ErrNotExist /\ Len(ret.list) = 0
    /\ Exists(kv, BC)

\* C9: the keys a recursive List returns are, as a set, exactly the keys
\* that hold a live record at or below the prefix.
C9_RecursiveListExact ==
    ret.op = "List" /\ ret.recursive =>
        Range(ret.list) = {k \in DOMAIN expect : Under(ret.key, k)}

C9_Witness ==
    /\ ret.op = "List" /\ ret.recursive /\ ret.key = << >>
    /\ DOMAIN expect = {A, BC, BD}
    /\ Range(ret.list) = {A, BC, BD} /\ ret.list[1] = BD

\* C10: Stat(k) after a successful Store(k, v), no other call having changed
\* k since and no key being stored below k, returns the byte length of v as
\* size and isTerminal = true.
C10_StatAfterStore ==
    /\ ret.op = "Stat"
    /\ ret.key \in DOMAIN expect
    /\ \A j \in DOMAIN expect : j # ret.key => ~Under(ret.key, j)
    => /\ ~ret.panic
       /\ ret.Size = Len(expect[ret.key].value)
       /\ ret.IsTerminal

-----------------------------------------------------------------------------
(* Properties of Delete (SpecList, SpecStore) *)

\* The read in ret reports every key of gone as absent
AbsentAll(gone) ==
    CASE ret.op = "Load"   -> ret.key \in gone => ~ret.panic /\ ret.err = ErrNotExist
      [] ret.op = "Exists" -> ret.key \in gone => ret.val = FALSE
      [] ret.op = "List"   -> \A k \in gone : k \notin Range(ret.list)
      [] OTHER             -> TRUE

\* C12 as stated: after Delete(k) returned success and until the next
\* Store(k, _), Exists(k) is false, Load(k) returns the not-found error and
\* no List result has k in it.
C12_DeletedAbsent == AbsentAll(hist.deleted)

\* C12, amended: after Delete(k) returned success and until the next
\* Store(k, _) or the next Lock call that writes k as its lock record,
\* Exists(k) is false, Load(k) returns the not-found error and no List
\* result has k in it.
C12_DeletedUnwrittenAbsent == AbsentAll(hist.cleared)

C12_Witness ==
    /\ ret.op = "List" /\ ret.recursive /\ ret.key = B /\ ret.err = Nil
    /\ BC \in everPut.store /\ BC \in hist.cleared
    /\ Range(ret.list) = {BD}

\* C13: Delete(k) on a key that has no record (never stored, or deleted
\* before) returns no error and leaves the backend as it was.
C13_DeleteIdempotent ==
    ret.op = "Delete" /\ ~ret.was => ret.err = Nil /\ ret.same

C13_Witness ==
    /\ ret.op = "Delete" /\ ~ret.was /\ ret.key = B /\ ret.err = Nil
    /\ B \in everPut.store /\ B \in hist.deleted
    /\ Exists(kv, BC)

-----------------------------------------------------------------------------
(* Properties of the reads over the backend's responses (SpecResponse,      *)
(* SpecStore)                                                               *)

\* C14: Load(k) returns the not-found error exactly when Exists(k) is false,
\* that is when the payload mapping is empty or the record is marked
\* destroyed; it returns no bytes for a destroyed record.
C14_LoadAsExists ==
    ret.op = "Load" =>
        /\ ~ret.panic
        /\ (ret.err = ErrNotExist) <=> ~Exists(kv, ret.key)

\* C15: Stat(k) on a key without a live record returns the not-found error
\* as an error value; it neither aborts nor returns a result.
C15_StatAbsentNotFound ==
    ret.op = "Stat" /\ ~Exists(kv, ret.key) => ~ret.panic /\ ret.err = ErrNotExist

-----------------------------------------------------------------------------
(* Properties of Unlock (SpecUnlock) *)

\* C11: Unlock(k) and Unlock(k + ".lock"), called after Lock(k) succeeded,
\* have the same effect for every key k, also one with ".lock" inside: they
\* delete the lock record k + ".lock" and no other record, and leave k
\* unlocked.
C11_UnlockNormalizes ==
    ret.op = "Unlock" =>
        /\ ~ret.left
        /\ ret.gone \subseteq {Append(ret.logical, LockSuffix)}

EndsInLock(key) == Len(key) > 0 /\ key[Len(key)] = LockSuffix

\* C20: every record that a call of Lock or Unlock creates, overwrites or
\* deletes has a key ending in ".lock".
C20_OnlyLockRecords == \A k \in hist.changed : EndsInLock(k)

-----------------------------------------------------------------------------
(* Properties of Lock under failures and interleavings (SpecFail, SpecLock) *)

ReadFailed == "read failed"

\* C16: a Lock call whose presence check failed at transport level returns
\* that error and writes no lock record.
C16_ExistsErrorPropagated ==
    \A p \in Procs :
        Returned(p) /\ entry[p] = "failed" =>
            lockRes[p] = ReadFailed /\ ~touched[p].put

C18_LockReturns == \A p \in Procs : lockRes[p] # "panic"

\* C19: the force-unlock step of a Lock call removes only a lock record
\* that is more than 60 seconds old when it is removed.
C19_NoFreshDelete ==
    \A p \in Procs : hist.victim[p] = -1 \/ hist.victim[p] > StaleSeconds

====
